---- MODULE Spec2Model ----
(***************************************************************************)
(* Model of src/main.py: a command-line program that parses its arguments, *)
(* creates Output/<domain>/, issues one HTTP GET to the crawling API and   *)
(* renders the decoded JSON answer into Output/<domain>/crawling_results.md*)
(*                                                                         *)
(* A Markdown document is a sequence of lines, a line is the sequence of   *)
(* the string fragments an f-string concatenates (the empty sequence is a  *)
(* blank line).  The file system is the set of existing output directories *)
(* and a map from the directories that hold a crawling_results.md to its   *)
(* content.  Spec is one run of main, SpecRuns the program run again and   *)
(* again on one file system, SpecRender save_as_markdown called directly.  *)
(***************************************************************************)
EXTENDS Integers, Sequences, FiniteSets, TLC

\* ------------------------------------------------------------------ bounds
MaxLen == 2        \* total number of entries a response carries
MaxRunLen == 1     \* the same, when the program is run again and again
MaxDepth == 1      \* --depth is drawn from 0..MaxDepth (and its default)
MaxLimit == 1      \* --requestLimit is drawn from 1..MaxLimit (and its default)

\* ------------------------------------------------------- program constants
DefaultDepth == 1
DefaultLimit == 10
DefaultDataType == "links"
Choices == {"links", "text", "images"}
firecrawl_api_url == "https://api.firecrawl.com/crawl"

\* ------------------------------------------------------------------ inputs
\* A URL as urlparse splits it: <<scheme, netloc, rest>>.
Urls ==
  { <<"https", "a.com", "">>,
    <<"https", "a.com", "/docs?page=2">>,
    <<"https", "b.com:8080", "/">> }

\* urlparse(url).netloc
Netloc(url) == url[2]

Domains == { Netloc(u) : u \in Urls }

\* An optional flag on the command line: <<>> when left out, <<v>> when given.
Opt(S) == {<<>>} \cup { <<v>> : v \in S }

\* Command lines argparse accepts: --dataType is one of the choices.
DataTypes == Opt(Choices)
Depths == Opt(0..MaxDepth)
Limits == Opt(1..MaxLimit)

Keys == {"links", "texts", "images"}
Items(k) ==
  CASE k = "links"  -> {"https://a.com", "https://b.com"}
    [] k = "texts"  -> {"Hello", "World"}
    [] k = "images" -> {"https://x.com/i.png", "https://x.com/j.png"}

SeqsUpTo(S, n) == UNION { [1..m -> S] : m \in 0..n }

RECURSIVE SumLen(_, _)
SumLen(f, ks) ==
  IF ks = {} THEN 0
  ELSE LET k == CHOOSE x \in ks : TRUE
       IN Len(f[k]) + SumLen(f, ks \ {k})

\* Decoded JSON objects: any subset of the three keys, each a list of strings.
JsonObjects(n) ==
  UNION { { f \in [ks -> UNION { SeqsUpTo(Items(k), n) : k \in ks }] :
              /\ \A k \in ks : f[k] \in SeqsUpTo(Items(k), n)
              /\ SumLen(f, ks) <= n }
          : ks \in SUBSET Keys }

\* What response.json() can return: an object, or a JSON value that is no
\* object (an array), on which .get does not exist.
JsonValues(n) ==
  { [kind |-> "object", fields |-> f] : f \in JsonObjects(n) }
    \cup { [kind |-> "array", fields |-> <<>>] }

NoArgv == [url |-> <<>>, depth |-> <<>>, dataType |-> <<>>, requestLimit |-> <<>>]
NoArgs == [url |-> <<>>, depth |-> 0, dataType |-> "", requestLimit |-> 0]
NoJson == [kind |-> "none", fields |-> <<>>]

VARIABLES
  pc,           \* position of the running process in main
  argv,         \* command line the running process was started with
  args,         \* argparse namespace of the running process
  output_dir,   \* domain naming Output/<domain>/ (main's output_dir)
  sent,         \* GET requests issued by the running process
  get_result,   \* how the GET of the running process ended
  result,       \* value returned by crawl_site
  md_content,   \* document built by save_as_markdown
  exit_status,  \* <<>> while running, <<code>> once the process has ended
  outcome,      \* how the process ended
  trace,        \* steps the running process has taken, in order
  dirs,         \* file system: existing Output/<domain>/ directories
  files,        \* file system: domain -> content of its crawling_results.md
  dirs0,        \* dirs as they were when the running process started
  files0        \* files as they were when the running process started

vars == <<pc, argv, args, output_dir, sent, get_result, result, md_content,
          exit_status, outcome, trace, dirs, files, dirs0, files0>>

\* --------------------------------------------------------------- rendering
Title == <<"# Resultado do Crawling">>
Blank == <<>>
SubHeading(data_type) == <<"## Tipo de dados: ", data_type>>
LinksHeading == <<"### Links encontrados:">>
\* "### Textos extraídos:" in the source, written here in ASCII
TextsHeading == <<"### Textos extraidos:">>
ImagesHeading == <<"### Imagens encontradas:">>
Rule == <<"---">>

\* f"- [{link}]({link})\n"
LinkEntry(link) == << <<"- [", link, "](", link, ")">> >>
\* the rule line left out of the entry
TextEntryNoRule(text) == << <<text>>, Blank >>

\* f"{text}\n\n---\n\n"
TextEntry(text) == << <<text>>, Blank, Rule, Blank >>
\* the "!" left out: a link, not an embed
ImageEntryAsLink(image) == << <<"[", image, "](", image, ")">>, Blank >>

\* f"![{image}]({image})\n\n"
ImageEntry(image) == << <<"![", image, "](", image, ")">>, Blank >>

\* data.get(key, [])
Get(data, key) == IF key \in DOMAIN data.fields THEN data.fields[key] ELSE <<>>

\* md_content = entry + md_content: the entries end up in reverse order
RECURSIVE ForEachPrepending(_, _)
ForEachPrepending(data_type, xs) ==
  IF xs = <<>> THEN <<>>
  ELSE ForEachPrepending(data_type, Tail(xs)) \o
       (CASE data_type = "links"  -> LinkEntry(Head(xs))
          [] data_type = "text"   -> TextEntry(Head(xs))
          [] data_type = "images" -> ImageEntry(Head(xs)))

\* the three for loops: md_content += entry, element by element
RECURSIVE ForEach(_, _)
ForEach(data_type, xs) ==
  IF xs = <<>> THEN <<>>
  ELSE (CASE data_type = "links"  -> LinkEntry(Head(xs))
          [] data_type = "text"   -> TextEntry(Head(xs))
          [] data_type = "images" -> ImageEntry(Head(xs)))
       \o ForEach(data_type, Tail(xs))

\* lines 53-54
Heading(data_type) == <<Title, Blank, SubHeading(data_type), Blank>>

\* lines 57, 62, 67
SectionHeading(data_type) ==
  CASE data_type = "links"  -> LinksHeading
    [] data_type = "text"   -> TextsHeading
    [] data_type = "images" -> ImagesHeading

\* the last branch written as a plain else: an unknown selector renders images
RenderLastBranchElse(data, data_type) ==
  Heading(data_type) \o
  (CASE data_type = "links"  ->
          <<SectionHeading("links"), Blank>> \o ForEach("links", Get(data, "links"))
     [] data_type = "text"   ->
          <<SectionHeading("text"), Blank>> \o ForEach("text", Get(data, "texts"))
     [] OTHER ->
          <<SectionHeading("images"), Blank>> \o ForEach("images", Get(data, "images")))

\* md_content as save_as_markdown builds it (lines 53-69)
Render(data, data_type) ==
  Heading(data_type) \o
  (CASE data_type = "links"  ->
          <<SectionHeading("links"), Blank>> \o ForEach("links", Get(data, "links"))
     [] data_type = "text"   ->
          <<SectionHeading("text"), Blank>> \o ForEach("text", Get(data, "texts"))
     [] data_type = "images" ->
          <<SectionHeading("images"), Blank>> \o ForEach("images", Get(data, "images"))
     [] OTHER -> <<>>)

\* data[key] in place of data.get(key, []): a missing key raises KeyError
RenderRaisesOnMissingKey(data, data_type) ==
  /\ data_type \in Choices
  /\ \/ data.kind # "object"
     \/ (CASE data_type = "links"  -> "links"
           [] data_type = "text"   -> "texts"
           [] data_type = "images" -> "images") \notin DOMAIN data.fields

\* data.get raises AttributeError when data is no dict; it is only called
\* in the three known branches.
RenderRaises(data, data_type) == data_type \in Choices /\ data.kind # "object"

\* the file opened in append mode
WriteTextAppending(fs, dir, content) ==
  [d \in DOMAIN fs \cup {dir} |->
     IF d = dir THEN (IF dir \in DOMAIN fs THEN fs[dir] ELSE <<>>) \o content
     ELSE fs[d]]

\* output_file.write_text(md_content): the file holds md_content alone
WriteText(fs, dir, content) ==
  [d \in DOMAIN fs \cup {dir} |-> IF d = dir THEN content ELSE fs[d]]

\* write_text failing: at open (file untouched) or after open("w") has
\* truncated or created the file (file left empty)
FailedWrite(fs, dir, opened) ==
  IF opened THEN WriteText(fs, dir, <<>>) ELSE fs

\* the limit sent under the flag's name
ParamsUnderFlagName(url, depth, data_type, request_limit) ==
  [url |-> url, depth |-> depth, dataType |-> data_type,
   requestLimit |-> request_limit]

\* params of the GET (lines 28-33)
Params(url, depth, data_type, request_limit) ==
  [url |-> url, depth |-> depth, dataType |-> data_type, limit |-> request_limit]

\* ----------------------------------------------------------------- actions
\* argparse: the flag's value, or its default when the flag is left out
OrDefault(opt, default) == IF opt = <<>> THEN default ELSE opt[1]

\* sys.exit(code), or the interpreter ending the process
Exit(code, how) ==
  /\ pc' = "done"
  /\ exit_status' = <<code>>
  /\ outcome' = how

\* parser.parse_args() (lines 77-104) on a command line argparse accepts; a
\* flag left out takes its default.
ParseArgs(depths, limits) ==
  /\ pc = "start"
  /\ trace' = Append(trace, "parse_args")
  /\ pc' = "parsed"
  /\ \E url \in Urls, depth \in depths, dt \in DataTypes, limit \in limits :
       /\ argv' = [url |-> url, depth |-> depth, dataType |-> dt,
                   requestLimit |-> limit]
       /\ args' = [url |-> url,
                   depth |-> OrDefault(depth, DefaultDepth),
                   dataType |-> OrDefault(dt, DefaultDataType),
                   requestLimit |-> OrDefault(limit, DefaultLimit)]
  /\ UNCHANGED <<exit_status, outcome, output_dir, sent, get_result, result, md_content, dirs, files,
                 dirs0, files0>>

\* the directory named but never created
MakeOutputDirNotCreated ==
  /\ pc = "parsed"
  /\ output_dir' = Netloc(args.url)
  /\ trace' = Append(trace, "mkdir")
  /\ pc' = "dir_made"
  /\ UNCHANGED <<argv, args, sent, get_result, result, md_content, exit_status,
                 outcome, dirs, files, dirs0, files0>>

\* lines 107-109: output_dir.mkdir(parents=True, exist_ok=True); an OSError
\* is not caught.
MakeOutputDir ==
  /\ pc = "parsed"
  /\ output_dir' = Netloc(args.url)
  /\ trace' = Append(trace, "mkdir")
  /\ \E ok \in BOOLEAN :
       IF ok
         THEN /\ dirs' = dirs \cup {Netloc(args.url)}
              /\ pc' = "dir_made"
              /\ UNCHANGED <<exit_status, outcome>>
         ELSE /\ dirs' = dirs
              /\ Exit(1, "uncaught")
  /\ UNCHANGED <<argv, args, sent, get_result, result, md_content, files, dirs0,
                 files0>>

\* the except branch returning an empty dict instead of ending the process
CrawlSiteReturningEmpty(jsons) ==
  /\ pc = "dir_made"
  /\ sent' = Append(sent, [endpoint |-> firecrawl_api_url,
                          params |-> Params(args.url, args.depth, args.dataType,
                                            args.requestLimit)])
  /\ trace' = Append(trace, "GET")
  /\ pc' = "crawled"
  /\ \/ \E err \in {"transport_error", "http_error", "ok_bad_json"} :
          /\ get_result' = err
          /\ result' = [kind |-> "object", fields |-> <<>>]
     \/ \E json \in jsons :
          /\ get_result' = "ok_json"
          /\ result' = json
  /\ UNCHANGED <<argv, args, output_dir, md_content, exit_status, outcome, dirs,
                 files, dirs0, files0>>

\* the except branch sending the request once more before giving up
CrawlSiteRetrying(jsons) ==
  /\ pc = "dir_made"
  /\ LET get == [endpoint |-> firecrawl_api_url,
                 params |-> Params(args.url, args.depth, args.dataType,
                                   args.requestLimit)]
     IN \/ \E err \in {"transport_error", "http_error", "ok_bad_json"} :
             /\ sent' = sent \o <<get, get>>
             /\ trace' = trace \o <<"GET", "GET">>
             /\ get_result' = err
             /\ result' = result
             /\ Exit(1, "request_failed")
        \/ \E json \in jsons :
             /\ sent' = Append(sent, get)
             /\ trace' = Append(trace, "GET")
             /\ get_result' = "ok_json"
             /\ result' = json
             /\ pc' = "crawled"
             /\ UNCHANGED <<exit_status, outcome>>
  /\ UNCHANGED <<argv, args, output_dir, md_content, dirs, files, dirs0, files0>>

\* crawl_site (lines 10-42), called at line 112 with the parsed arguments
CrawlSite(jsons) ==
  /\ pc = "dir_made"
  /\ sent' = Append(sent, [endpoint |-> firecrawl_api_url,
                          params |-> Params(args.url, args.depth, args.dataType,
                                            args.requestLimit)])
  /\ trace' = Append(trace, "GET")
  /\ \/ \E err \in {"transport_error", "http_error"} :
          \* requests.get or raise_for_status raises a RequestException
          /\ get_result' = err
          /\ result' = result
          /\ Exit(1, "request_failed")
     \/ \E caught \in BOOLEAN :
          \* response.json() raises: a RequestException in requests >= 2.27,
          \* a plain ValueError (not caught) before
          /\ get_result' = "ok_bad_json"
          /\ result' = result
          /\ Exit(1, IF caught THEN "request_failed" ELSE "uncaught")
     \/ \E json \in jsons :
          /\ get_result' = "ok_json"
          /\ result' = json
          /\ pc' = "crawled"
          /\ UNCHANGED <<exit_status, outcome>>
  /\ UNCHANGED <<argv, args, output_dir, md_content, dirs, files, dirs0, files0>>

\* save_as_markdown (lines 44-73), called at line 115 with args.dataType
SaveAsMarkdown ==
  /\ pc = "crawled"
  /\ IF RenderRaises(result, args.dataType)
       THEN /\ trace' = Append(trace, "render")
            /\ md_content' = Heading(args.dataType) \o
                               <<SectionHeading(args.dataType), Blank>>
            /\ files' = files
            /\ Exit(1, "uncaught")
       ELSE /\ md_content' = Render(result, args.dataType)
            /\ trace' = trace \o <<"render", "write">>
            /\ \/ /\ files' = WriteText(files, output_dir, md_content')
                  /\ Exit(0, "written")
               \/ \E opened \in BOOLEAN :
                  /\ files' = FailedWrite(files, output_dir, opened)
                  /\ Exit(1, "uncaught")
  /\ UNCHANGED <<argv, args, output_dir, sent, get_result, result, dirs, dirs0,
                 files0>>

\* The operator starts the program again (lines 117-118): a new process,
\* with nothing kept from the last one but the file system.
RunAgain ==
  /\ pc = "done"
  /\ pc' = "start"
  /\ argv' = NoArgv
  /\ args' = NoArgs
  /\ output_dir' = ""
  /\ sent' = <<>>
  /\ get_result' = "none"
  /\ result' = NoJson
  /\ md_content' = <<>>
  /\ exit_status' = <<>>
  /\ outcome' = "running"
  /\ trace' = <<>>
  /\ dirs0' = dirs
  /\ files0' = files
  /\ UNCHANGED <<dirs, files>>

\* A process about to run main on a file system no run has touched.
Init ==
  /\ pc = "start"
  /\ argv = NoArgv
  /\ args = NoArgs
  /\ output_dir = ""
  /\ sent = <<>>
  /\ get_result = "none"
  /\ result = NoJson
  /\ md_content = <<>>
  /\ exit_status = <<>>
  /\ outcome = "running"
  /\ trace = <<>>
  /\ dirs = {}
  /\ files = <<>>
  /\ dirs0 = {}
  /\ files0 = <<>>

\* One run of the program, over every command line and every response.
Next ==
  \/ ParseArgs(Depths, Limits)
  \/ MakeOutputDir
  \/ CrawlSite(JsonValues(MaxLen))
  \/ SaveAsMarkdown

Spec == Init /\ [][Next]_vars

\* The program run again and again on one file system, --depth and
\* --requestLimit left to their defaults.
NextRuns ==
  \/ ParseArgs({<<>>}, {<<>>})
  \/ MakeOutputDir
  \/ CrawlSite(JsonValues(MaxRunLen))
  \/ SaveAsMarkdown
  \/ RunAgain

SpecRuns == Init /\ [][NextRuns]_vars

\* save_as_markdown called on its own, with any selector: the state main
\* would be in at line 115, for every data, output directory and data_type.
InitRender ==
  /\ pc = "crawled"
  /\ argv = NoArgv
  /\ \E dt \in Choices \cup {"audio", ""} :
       args = [url |-> <<>>, depth |-> 0, dataType |-> dt, requestLimit |-> 0]
  /\ output_dir \in Domains
  /\ sent = <<>>
  /\ get_result = "none"
  /\ result \in JsonValues(MaxLen)
  /\ md_content = <<>>
  /\ exit_status = <<>>
  /\ outcome = "running"
  /\ trace = <<>>
  /\ dirs = {output_dir}
  /\ files = <<>>
  /\ dirs0 = dirs
  /\ files0 = <<>>

NextRender == SaveAsMarkdown

SpecRender == InitRender /\ [][NextRender]_vars

\* ================================================================== claims
\* vocabulary of the claims
Occurs(step) == \E i \in 1..Len(trace) : trace[i] = step
Count(step) == Cardinality({ i \in 1..Len(trace) : trace[i] = step })
Before(a, b) ==
  \A j \in 1..Len(trace) : trace[j] = b => \E i \in 1..(j - 1) : trace[i] = a
GetFailed == get_result \in {"transport_error", "http_error"}
\* save_as_markdown built the whole document (no exception while rendering)
Rendered == pc = "done" /\ Occurs("write")
IsObject == result.kind = "object"
\* lines of a document that start with the given fragment
LinesWith(doc, first) == SelectSeq(doc, LAMBDA l : Len(l) > 0 /\ l[1] = first)
Body(doc) == SubSeq(doc, 7, Len(doc))
FieldOf(data_type) ==
  CASE data_type = "links"  -> "links"
    [] data_type = "text"   -> "texts"
    [] data_type = "images" -> "images"

\* C1: a run whose GET fails (transport error or error status) ends with exit
\* status 1, never reaches save_as_markdown and writes nothing: every
\* crawling_results.md is as it was when the run started.
C1_FailedRequestWritesNothing ==
  GetFailed =>
    /\ pc = "done"
    /\ exit_status = <<1>>
    /\ ~Occurs("render")
    /\ ~Occurs("write")
    /\ md_content = <<>>
    /\ files = files0

\* C1 witness: a request fails with an error status in a run against a domain
\* whose file an earlier run has written.
C1_Witness ==
  /\ get_result = "http_error"
  /\ pc = "done"
  /\ output_dir \in DOMAIN files0
  /\ files0[output_dir] # <<>>

\* C2: every GET goes to the fixed endpoint with exactly the parameters url,
\* depth, dataType and limit, whose values are the ones given on the command
\* line (--requestLimit under the name limit), a flag left out counting as its
\* default.
C2_ParamsMirrorCli ==
  \A i \in 1..Len(sent) :
    /\ sent[i].endpoint = firecrawl_api_url
    /\ DOMAIN sent[i].params = {"url", "depth", "dataType", "limit"}
    /\ sent[i].params.url = argv.url
    /\ sent[i].params.depth =
         (IF argv.depth = <<>> THEN DefaultDepth ELSE argv.depth[1])
    /\ sent[i].params.dataType =
         (IF argv.dataType = <<>> THEN DefaultDataType ELSE argv.dataType[1])
    /\ sent[i].params.limit =
         (IF argv.requestLimit = <<>> THEN DefaultLimit ELSE argv.requestLimit[1])

\* C2 witness: a request was sent for a command line giving depth 0, a
\* request limit and a data type other than the default.
C2_Witness ==
  /\ Len(sent) = 1
  /\ argv.depth = <<0>>
  /\ argv.requestLimit = <<1>>
  /\ argv.dataType = <<"images">>
  /\ argv.url = <<"https", "a.com", "/docs?page=2">>

\* C3 as stated: at most one GET, the write only after a decoded successful
\* response, and every run ends in "file written, exit 0" or "request failed,
\* exit 1".
C3_Original ==
  /\ Len(sent) <= 1
  /\ Occurs("write") => get_result = "ok_json" /\ Before("GET", "write")
  /\ pc = "done" =>
       \/ outcome = "written" /\ exit_status = <<0>>
       \/ outcome = "request_failed" /\ exit_status = <<1>>

\* C3 amended: a run whose command line argparse accepts sends at most one
\* GET and never retries; its steps are taken in the order parse, mkdir, GET,
\* render, write; the write happens only after a decoded successful response;
\* the run ends with exit 0 exactly when the file was written, with exit 1
\* when the request failed, and otherwise by an exception that is not caught
\* (exit 1), in which case nothing but the write itself can have touched the
\* file.
C3_SingleRequestAndEndings ==
  /\ Len(sent) <= 1
  /\ Count("GET") = Len(sent)
  /\ \E n \in 0..5 : trace = SubSeq(<<"parse_args", "mkdir", "GET", "render", "write">>, 1, n)
  /\ Occurs("write") => get_result = "ok_json" /\ Before("GET", "write")
  /\ pc = "done" =>
       \/ outcome = "written" /\ exit_status = <<0>> /\ Occurs("write")
       \/ outcome = "request_failed" /\ exit_status = <<1>>
            /\ Len(sent) = 1 /\ ~Occurs("render")
       \/ outcome = "uncaught" /\ exit_status = <<1>>
            /\ (files # files0 => Occurs("write"))
  /\ pc # "done" => exit_status = <<>>

\* C3 witness: a run that sent its one request, got a decoded response and
\* ended by an exception escaping write_text.
C3_Witness ==
  /\ pc = "done"
  /\ outcome = "uncaught"
  /\ trace = <<"parse_args", "mkdir", "GET", "render", "write">>
  /\ Len(sent) = 1

\* C4: with dataType links the list lines of the document are exactly
\* "- [url](url)" for the elements of the links field, one per element and in
\* input order, and a written file holds that document.
C4_LinksOnePerElement ==
  (Rendered /\ args.dataType = "links" /\ IsObject) =>
    LET L == IF "links" \in DOMAIN result.fields THEN result.fields["links"] ELSE <<>>
    IN /\ LinesWith(md_content, "- [") = [i \in 1..Len(L) |-> <<"- [", L[i], "](", L[i], ")">>]
       /\ Body(md_content) = [i \in 1..Len(L) |-> <<"- [", L[i], "](", L[i], ")">>]
       /\ outcome = "written" => files[output_dir] = md_content

\* C4 witness: the response {"links": ["https://a.com", "https://b.com"]}
\* rendered and written.
C4_Witness ==
  /\ Rendered /\ outcome = "written" /\ args.dataType = "links" /\ IsObject
  /\ "links" \in DOMAIN result.fields
  /\ result.fields["links"] = <<"https://a.com", "https://b.com">>

\* C5 as stated: the rule lines are separators, lying between paragraphs: n
\* entries give n - 1 rule lines and none follows the last paragraph.
C5_Original ==
  (Rendered /\ args.dataType = "text" /\ IsObject) =>
    LET T == IF "texts" \in DOMAIN result.fields THEN result.fields["texts"] ELSE <<>>
        n == Len(T)
    IN /\ Len(LinesWith(md_content, "---")) = (IF n = 0 THEN 0 ELSE n - 1)
       /\ \A i \in 1..Len(md_content) :
            md_content[i] = <<"---">> =>
              \E j \in (i + 1)..Len(md_content) : md_content[j] \in { <<t>> : t \in Items("texts") }

\* C5 amended: with dataType text the body is, for each entry of the texts
\* field in input order, the paragraph, a blank line, a rule line and a blank
\* line: every paragraph is followed by a rule, so a rule lies between any
\* two consecutive paragraphs and one more follows the last (n entries, n
\* rules).
C5_TextsEachFollowedByRule ==
  (Rendered /\ args.dataType = "text" /\ IsObject) =>
    LET T == IF "texts" \in DOMAIN result.fields THEN result.fields["texts"] ELSE <<>>
        B == Body(md_content)
    IN /\ Len(B) = 4 * Len(T)
       /\ \A i \in 1..Len(T) :
            /\ B[4 * i - 3] = <<T[i]>>
            /\ B[4 * i - 2] = <<>>
            /\ B[4 * i - 1] = <<"---">>
            /\ B[4 * i] = <<>>
       /\ Len(LinesWith(md_content, "---")) = Len(T)
       /\ outcome = "written" => files[output_dir] = md_content

\* C5 witness: the response {"texts": ["Hello", "World"]} rendered and written.
C5_Witness ==
  /\ Rendered /\ outcome = "written" /\ args.dataType = "text" /\ IsObject
  /\ "texts" \in DOMAIN result.fields
  /\ result.fields["texts"] = <<"Hello", "World">>

\* C6: with dataType images the embed lines of the document are exactly
\* "![url](url)" for the elements of the images field, one per element and in
\* input order, each followed by a blank line, and nothing else is in the
\* body (no embed for a URL of another field).
C6_ImagesOnePerElement ==
  (Rendered /\ args.dataType = "images" /\ IsObject) =>
    LET I == IF "images" \in DOMAIN result.fields THEN result.fields["images"] ELSE <<>>
        B == Body(md_content)
    IN /\ LinesWith(md_content, "![") = [i \in 1..Len(I) |-> <<"![", I[i], "](", I[i], ")">>]
       /\ Len(B) = 2 * Len(I)
       /\ \A i \in 1..Len(I) : B[2 * i - 1] = <<"![", I[i], "](", I[i], ")">> /\ B[2 * i] = <<>>
       /\ outcome = "written" => files[output_dir] = md_content

\* C6 witness: a response with one image and a link rendered as images.
C6_Witness ==
  /\ Rendered /\ outcome = "written" /\ args.dataType = "images" /\ IsObject
  /\ DOMAIN result.fields = {"images", "links"}
  /\ result.fields["images"] = <<"https://x.com/i.png">>
  /\ Len(result.fields["links"]) = 1

\* C7: when the decoded object lacks the field the selector reads, rendering
\* raises nothing and the document is the title heading, the data-type
\* sub-heading and the section heading with no entry, whatever other fields
\* the object carries; the call then fails only if write_text itself does,
\* and the file written holds that document.
C7_MissingFieldIsEmpty ==
  (pc = "done" /\ Occurs("render") /\ IsObject /\ args.dataType \in Choices
     /\ FieldOf(args.dataType) \notin DOMAIN result.fields) =>
    /\ Occurs("write")
    /\ md_content = << <<"# Resultado do Crawling">>, <<>>,
                       <<"## Tipo de dados: ", args.dataType>>, <<>>,
                       SectionHeading(args.dataType), <<>> >>
    /\ outcome = "written" => exit_status = <<0>> /\ files[output_dir] = md_content

\* C7 witness: dataType text, a response without texts that carries links
\* and images, file written.
C7_Witness ==
  /\ pc = "done" /\ outcome = "written" /\ IsObject /\ args.dataType = "text"
  /\ DOMAIN result.fields = {"links", "images"}
  /\ Len(result.fields["links"]) = 1
  /\ Len(result.fields["images"]) = 1

\* C8: after a successful run the crawling_results.md of the run's domain
\* holds the rendering of this run's response alone (one title heading,
\* nothing of what the file held before), and the files of the other domains
\* are as they were.
C8_OverwriteNotAppend ==
  outcome = "written" =>
    /\ output_dir = Netloc(argv.url)
    /\ output_dir \in DOMAIN files
    /\ files[output_dir] = md_content
    /\ Len(LinesWith(files[output_dir], "# Resultado do Crawling")) = 1
    /\ Len(files[output_dir]) =
         6 + (CASE args.dataType = "links" -> 1
                [] args.dataType = "text" -> 4
                [] args.dataType = "images" -> 2)
             * (IF FieldOf(args.dataType) \in DOMAIN result.fields
                  THEN Len(result.fields[FieldOf(args.dataType)]) ELSE 0)
    /\ \A d \in DOMAIN files0 : d # output_dir => d \in DOMAIN files /\ files[d] = files0[d]
    /\ DOMAIN files = DOMAIN files0 \cup {output_dir}

\* C8 witness: a successful run against a domain whose file an earlier run
\* against another URL of the same domain left with other, non-empty content.
C8_Witness ==
  /\ outcome = "written"
  /\ output_dir \in DOMAIN files0
  /\ Len(files0[output_dir]) > 6
  /\ files0[output_dir] # files[output_dir]
  /\ argv.url = <<"https", "a.com", "/docs?page=2">>

\* C9: called with a selector that is none of links, text, images,
\* save_as_markdown raises nothing while rendering, whatever the data, and the
\* document is the title heading and the sub-heading naming the selector
\* alone: no section heading and no entry for any element of the data.
C9_UnknownSelectorHeadingOnly ==
  (pc = "done" /\ args.dataType \notin Choices) =>
    /\ trace = <<"render", "write">>
    /\ md_content = << <<"# Resultado do Crawling">>, <<>>,
                       <<"## Tipo de dados: ", args.dataType>>, <<>> >>
    /\ outcome = "written" => exit_status = <<0>> /\ files[output_dir] = md_content

\* C9 witness: selector "audio" with data carrying links, file written.
C9_Witness ==
  /\ pc = "done" /\ outcome = "written" /\ args.dataType = "audio"
  /\ IsObject /\ "links" \in DOMAIN result.fields
  /\ Len(result.fields["links"]) = 2

\* C10: the output directory exists before the request is sent, so a run
\* whose request fails leaves Output/<domain>/ created; its only effect on
\* the file system is that directory: every crawling_results.md is as it was.
C10_FailedRunLeavesOnlyDirectory ==
  /\ Occurs("GET") => Before("mkdir", "GET") /\ output_dir \in dirs
  /\ outcome = "request_failed" =>
       /\ output_dir = Netloc(argv.url)
       /\ dirs = dirs0 \cup {output_dir}
       /\ files = files0

\* C10 witness: a failed run against a domain never used before, while the
\* file of another domain exists.
C10_Witness ==
  /\ outcome = "request_failed"
  /\ output_dir \notin dirs0
  /\ \E d \in DOMAIN files0 : files0[d] # <<>>

====
